---- MODULE Spec2Model ----
(***************************************************************************)
(* Model of the retry executor (src/utils/retry.ts) and of the search      *)
(* manager (src/search/manager.ts) of supabase-vector-search.              *)
(*                                                                         *)
(* Numbers with a fractional part (weights, thresholds) are fixed-point    *)
(* integers in thousandths: One = 1.0.  A weight vector is a record        *)
(* [nums, den]: slot i holds the rational nums[i] / den, so that the       *)
(* division of the normalisation is exact.                                 *)
(* An error object is a record [cls, code, field, msg, id]: cls is its      *)
(* class, msg its message as a sequence of parts, id the number of the     *)
(* operation invocation that created it (0 when it was created outside     *)
(* the retried operation), which stands for the object's identity.         *)
(***************************************************************************)
EXTENDS Integers, Sequences, FiniteSets, TLC

\* ---------------------------------------------------------------- bounds
MaxRetriesBound == 3
MaxDocuments == 2
MaxBatchDocuments == 4
MaxBatchSize == 3
MaxContentLen == 2
MaxBlankBatch == 2
MaxTexts == 3
Dim == 3

\* ------------------------------------------------------ program constants
One == 1000
DefaultWeight == 250
Tolerance == 10
DefaultThreshold == 500
DefaultCount == 10
SearchMaxRetries == 3
DefaultMaxRetries == 3
BatchMaxRetries == 3
DocumentMaxRetries == 3
DefaultInitialDelayMs == 1000
DefaultMaxDelayMs == 10000

\* ------------------------------------------------------- optional values
NoNum == [some |-> FALSE, v |-> 0]
Num(n) == [some |-> TRUE, v |-> n]
NoVec == [some |-> FALSE, isArray |-> FALSE, elems |-> <<>>]
Vec(s) == [some |-> TRUE, isArray |-> TRUE, elems |-> s]
NoFilter == [some |-> FALSE, v |-> ""]
NoRows == [some |-> FALSE, v |-> <<>>]
Rows(s) == [some |-> TRUE, v |-> s]

\* Encoding of the non-finite and non-numeric elements a JS array may hold.
NaNVal == -1000001
InfVal == 1000002
StrVal == -1000003
NegInfVal == -1000002
IsNumber(e) == e # StrVal
IsNaN(e) == e = NaNVal

Min(a, b) == IF a <= b THEN a ELSE b
Abs(a) == IF a < 0 THEN 0 - a ELSE a
RECURSIVE Pow2(_)
Pow2(n) == IF n = 0 THEN 1 ELSE 2 * Pow2(n - 1)

\* ---------------------------------------------------------------- errors
NoError == [cls |-> "none", code |-> "", field |-> "", msg |-> <<>>, id |-> 0]
ValidationError(msg, field) ==
  [cls |-> "ValidationError", code |-> "", field |-> field, msg |-> msg, id |-> 0]
SearchError(msg, code, id) ==
  [cls |-> "SearchError", code |-> code, field |-> "", msg |-> msg, id |-> id]
EmbeddingError(msg, code) ==
  [cls |-> "EmbeddingError", code |-> code, field |-> "", msg |-> msg, id |-> 0]
RawError(msg, id) ==
  [cls |-> "Error", code |-> "", field |-> "", msg |-> msg, id |-> id]

\* ------------------------------------------------- embeddings/index.ts
\* A validator that looks at the values before the length.
validateEmbeddingDimensionsValuesFirst(embedding, expectedDimensions) ==
  IF ~embedding.isArray
    THEN EmbeddingError(<<"Embedding must be an array">>, "INVALID_EMBEDDING_TYPE")
  ELSE IF ~(\A i \in 1..Len(embedding.elems) :
              IsNumber(embedding.elems[i]) /\ ~IsNaN(embedding.elems[i]))
    THEN EmbeddingError(<<"Embedding must contain only valid numbers">>,
                        "INVALID_EMBEDDING_VALUES")
  ELSE IF Len(embedding.elems) # expectedDimensions
    THEN EmbeddingError(<<"Expected dimensions but got">>, "DIMENSION_MISMATCH")
  ELSE NoError

\* The error validateEmbeddingDimensions throws, NoError when it returns.
validateEmbeddingDimensions(embedding, expectedDimensions) ==
  IF ~embedding.isArray
    THEN EmbeddingError(<<"Embedding must be an array">>, "INVALID_EMBEDDING_TYPE")
  ELSE IF Len(embedding.elems) # expectedDimensions
    THEN EmbeddingError(<<"Expected dimensions but got">>, "DIMENSION_MISMATCH")
  ELSE IF ~(\A i \in 1..Len(embedding.elems) :
              IsNumber(embedding.elems[i]) /\ ~IsNaN(embedding.elems[i]))
    THEN EmbeddingError(<<"Embedding must contain only valid numbers">>,
                        "INVALID_EMBEDDING_VALUES")
  ELSE NoError

\* ------------------------------------------------------ utils/retry.ts
\* Destructuring defaults of the retry options (an unset option is NoNum).
OrDefault(x, d) == IF x.some THEN x.v ELSE d

\* A loop condition that leaves the loop one attempt early.
LoopContinuesStrict(a, maxRetries) == a < maxRetries

\* The loop condition of withRetry: attempt <= maxRetries.
LoopContinues(a, maxRetries) == a <= maxRetries

\* A last-attempt test that gives up one attempt early.
IsLastAttemptEarly(a, maxRetries) == a + 1 >= maxRetries

\* The catch block's test for the last attempt: attempt === maxRetries.
IsLastAttempt(a, maxRetries) == a = maxRetries

\* An assignment that keeps the first error instead of the latest.
NextLastErrorKeepFirst(last, error) == IF last = NoError THEN error ELSE last

\* The catch block's assignment lastError = error.
NextLastError(last, error) == error

\* A backoff delay that is never capped.
DelayUncapped(a, exponentialBackoff, initialDelayMs, maxDelayMs) ==
  IF exponentialBackoff THEN initialDelayMs * Pow2(a) ELSE initialDelayMs

\* The backoff delay computed after the failed attempt a (0-based).
Delay(a, exponentialBackoff, initialDelayMs, maxDelayMs) ==
  IF exponentialBackoff
    THEN Min(initialDelayMs * Pow2(a), maxDelayMs)
    ELSE initialDelayMs

\* String.toLowerCase on the words error messages are made of; a word with
\* no capital letter is its own lower case.
LowerCased ==
  { <<"ECONNREFUSED", "econnrefused">>, <<"ECONNRESET", "econnreset">>,
    <<"ETIMEDOUT", "etimedout">>, <<"ENOTFOUND", "enotfound">>,
    <<"PGRST301", "pgrst301">>, <<"PGRST504", "pgrst504">>,
    <<"Connection", "connection">>, <<"Search failed", "search failed">> }
toLowerCase(word) ==
  IF \E p \in LowerCased : p[1] = word
    THEN (CHOOSE p \in LowerCased : p[1] = word)[2]
    ELSE word

\* The signatures isRetryableError looks for.
retryableMessages ==
  { "ECONNREFUSED", "ECONNRESET", "ETIMEDOUT", "ENOTFOUND", "network",
    "timeout", "connection", "PGRST301", "PGRST504" }

\* isRetryableError(error): the lower-cased message includes a lower-cased
\* signature. A message is a sequence of words and includes a signature when
\* one of its words is that signature.
isRetryableError(error) ==
  \E m \in retryableMessages : \E i \in 1..Len(error.msg) :
    toLowerCase(error.msg[i]) = toLowerCase(m)

\* A withConditionalRetry that hands withRetry the user's onRetry unwrapped.
onRetryThrowsNever(entry, error) == FALSE

\* Whether the onRetry that withRetry was given throws the error it is called
\* with: the wrapper of withConditionalRetry does, on a non-retryable error.
onRetryThrows(entry, error) ==
  entry = "withConditionalRetry" /\ ~isRetryableError(error)

\* ---------------------------------------------------- search/manager.ts
\* JS truthiness of an optional number: unset and 0 are falsy.
Truthy(x) == x.some /\ x.v # 0

\* x || d on an optional number.
OrElse(x, d) == IF Truthy(x) THEN x.v ELSE d

\* A presence test that forgets the empty vector.
MissingQueryEmbeddingNoLength(q) == ~q.some

\* !options.queryEmbedding || options.queryEmbedding.length === 0
MissingQueryEmbedding(q) == ~q.some \/ (q.isArray /\ Len(q.elems) = 0)

\* if (options.querySectionN) validateEmbeddingDimensions(...)
ValidateIfPresent(q, expectedDimensions) ==
  IF q.some THEN validateEmbeddingDimensions(q, expectedDimensions) ELSE NoError

\* The first error of a list of checks made in order, NoError when none fails.
RECURSIVE FirstError(_)
FirstError(errs) ==
  IF errs = <<>> THEN NoError
  ELSE IF Head(errs) # NoError THEN Head(errs)
  ELSE FirstError(Tail(errs))

\* The validation at the head of search.
searchValidation(options, expectedDimensions) ==
  IF MissingQueryEmbedding(options.queryEmbedding)
    THEN ValidationError(<<"Query embedding is required">>, "queryEmbedding")
  ELSE IF Truthy(expectedDimensions)
    THEN validateEmbeddingDimensions(options.queryEmbedding, expectedDimensions.v)
  ELSE NoError

\* options.weightX || 0.25: a weight of 0 replaced by the default too.
ProvidedWeightOr(w) == IF w.some /\ w.v # 0 THEN w.v ELSE DefaultWeight

\* options.weightX ?? 0.25
ProvidedWeight(w) == IF w.some THEN w.v ELSE DefaultWeight

\* The four provided weights, slot i being nums[i] / den.
providedWeights(options) ==
  [nums |-> << ProvidedWeight(options.weightMain),
               ProvidedWeight(options.weightSection1),
               ProvidedWeight(options.weightSection2),
               ProvidedWeight(options.weightSection3) >>,
   den |-> One]

Sum4(w) == w[1] + w[2] + w[3] + w[4]

\* A test with a tolerance of 0.1 instead of 0.01.
NeedsNormalizationLoose(total, den) == Abs(total - den) * One > 10 * Tolerance * den

\* A test that rescales whenever the total is not exactly 1.0.
NeedsNormalizationExact(total, den) == total # den

\* Math.abs(totalWeight - 1.0) > 0.01, for totalWeight = total / den.
NeedsNormalization(total, den) == Abs(total - den) * One > Tolerance * den

\* The four weights dispatched to the backend: the provided weights each
\* divided by their total (nums[i] / den over total / den), or passed through.
normalizeWeights(provided) ==
  [nums |-> provided.nums,
   den  |-> IF NeedsNormalization(Sum4(provided.nums), provided.den)
              THEN Sum4(provided.nums)
              ELSE provided.den]

\* The validation at the head of searchWeighted, the zero-total test included.
searchWeightedValidation(options, expectedDimensions) ==
  IF MissingQueryEmbedding(options.queryEmbedding)
    THEN ValidationError(<<"Query embedding is required">>, "queryEmbedding")
  ELSE LET dims ==
             IF Truthy(expectedDimensions)
               THEN FirstError(<<
                 validateEmbeddingDimensions(options.queryEmbedding, expectedDimensions.v),
                 ValidateIfPresent(options.querySection1, expectedDimensions.v),
                 ValidateIfPresent(options.querySection2, expectedDimensions.v),
                 ValidateIfPresent(options.querySection3, expectedDimensions.v) >>)
               ELSE NoError
       IN IF dims # NoError THEN dims
          ELSE IF Sum4(providedWeights(options).nums) = 0
            THEN ValidationError(<<"Weights cannot all be zero">>, "weights")
          ELSE NoError

NoWeights == [nums |-> <<0, 0, 0, 0>>, den |-> 1]
NoParams ==
  [fn |-> "none", query_embedding |-> NoVec,
   query_sections |-> <<NoVec, NoVec, NoVec>>, weights |-> NoWeights,
   match_threshold |-> 0, match_count |-> 0, filter_metadata |-> NoFilter]

\* The arguments of client.rpc('match_documents', ...).
searchParams(options) ==
  [fn |-> "match_documents", query_embedding |-> options.queryEmbedding,
   query_sections |-> <<NoVec, NoVec, NoVec>>, weights |-> NoWeights,
   match_threshold |-> OrElse(options.matchThreshold, DefaultThreshold),
   match_count |-> OrElse(options.matchCount, DefaultCount),
   filter_metadata |-> options.filterMetadata]

\* The arguments of client.rpc('match_documents_weighted', ...).
searchWeightedParams(options) ==
  [fn |-> "match_documents_weighted", query_embedding |-> options.queryEmbedding,
   query_sections |->
     <<options.querySection1, options.querySection2, options.querySection3>>,
   weights |-> normalizeWeights(providedWeights(options)),
   match_threshold |-> OrElse(options.matchThreshold, DefaultThreshold),
   match_count |-> OrElse(options.matchCount, DefaultCount),
   filter_metadata |-> options.filterMetadata]

\* A catch clause that rethrows whatever it caught.
catchSearchRethrow(error) == error

\* The catch clause of search and searchWeighted.
catchSearch(error) ==
  IF error.cls \in {"ValidationError", "SearchError"}
    THEN error
    ELSE SearchError(<<"Unexpected error during search">> \o error.msg, "", 0)

OpOk(value) == [ok |-> TRUE, value |-> value, error |-> NoError]
OpFail(error) == [ok |-> FALSE, value |-> <<>>, error |-> error]

\* A retried operation that drops the backend's error code.
rpcOperationNoCode(reply, id) ==
  IF reply.kind = "throw" THEN OpFail(RawError(<<"fetch failed">>, id))
  ELSE IF reply.kind = "error"
    THEN OpFail(SearchError(<<"Search failed", "backend message">>, "", id))
  ELSE OpOk(IF reply.rows.some THEN reply.rows.v ELSE <<>>)

\* The retried operation of search and searchWeighted, given the backend's
\* reply to the rpc of invocation number id.
rpcOperation(reply, id) ==
  IF reply.kind = "throw" THEN OpFail(RawError(<<"fetch failed">>, id))
  ELSE IF reply.kind = "error"
    THEN OpFail(SearchError(<<"Search failed", "backend message">>, reply.code, id))
  ELSE OpOk(IF reply.rows.some THEN reply.rows.v ELSE <<>>)

\* ------------------------------------------------------------ the inputs
\* Query vectors of the expected length, one short of it, and empty.
GoodVec == Vec([i \in 1..Dim |-> i])
ShortVec == Vec([i \in 1..(Dim - 1) |-> i])
EmptyVec == Vec(<<>>)

MainVecInputs == {NoVec, EmptyVec, ShortVec, GoodVec}
\* Vectors of the expected length whose first component is NaN, Infinity or
\* -Infinity.
WithFirst(e) == Vec([i \in 1..Dim |-> IF i = 1 THEN e ELSE i])
NonFiniteVecInputs == { WithFirst(NaNVal), WithFirst(InfVal), WithFirst(NegInfVal) }
SectionInputs ==
  { <<NoVec, NoVec, NoVec>>, <<GoodVec, NoVec, GoodVec>>,
    <<NoVec, ShortVec, NoVec>>, <<GoodVec, GoodVec, ShortVec>> }
ExpectedDimensionsInputs == {NoNum, Num(Dim)}
WeightInputs == {NoNum, Num(0), Num(255), Num(50 * One)}
ThresholdCountInputs ==
  { <<NoNum, NoNum>>, <<Num(0), Num(5)>>, <<Num(800), NoNum>>, <<Num(800), Num(5)>> }
\* No metadata filter, or a filter object.
FilterInputs == { NoFilter, [some |-> TRUE, v |-> "category=tech"] }
MaxRetriesInputs == {NoNum} \cup {Num(n) : n \in 0..MaxRetriesBound}
InitialDelayInputs == {NoNum, Num(3000)}
MaxDelayInputs == {NoNum, Num(5000)}

\* What the backend may answer to one rpc: rows, no data, a reported error
\* with a code, or an exception thrown by the client.
BackendCodes == {"PGRST301", "42883"}
BackendReplies ==
  { [kind |-> "data", rows |-> Rows(<<1>>), code |-> ""],
    [kind |-> "data", rows |-> NoRows, code |-> ""],
    [kind |-> "throw", rows |-> NoRows, code |-> ""] }
  \cup { [kind |-> "error", rows |-> NoRows, code |-> c] : c \in BackendCodes }
NoReply == [kind |-> "none", rows |-> NoRows, code |-> ""]

\* What an operation handed to withRetry directly may do at invocation id.
DirectResults(id) ==
  { OpOk(<<id>>), OpFail(RawError(<<"ETIMEDOUT">>, id)),
    OpFail(RawError(<<"Connection", "lost">>, id)),
    OpFail(RawError(<<"boom">>, id)) }

NoOptions ==
  [queryEmbedding |-> NoVec, querySection1 |-> NoVec, querySection2 |-> NoVec,
   querySection3 |-> NoVec, weightMain |-> NoNum, weightSection1 |-> NoNum,
   weightSection2 |-> NoNum, weightSection3 |-> NoNum, matchThreshold |-> NoNum,
   matchCount |-> NoNum, filterMetadata |-> NoFilter]

NoOutcome == [kind |-> "none", value |-> <<>>, error |-> NoError]
Return(value) == [kind |-> "return", value |-> value, error |-> NoError]
Throw(error) == [kind |-> "throw", value |-> <<>>, error |-> error]

\* -------------------------------------------------------------- the state
VARIABLES
  pc,          \* "idle", "running" (an invocation in flight), "sleeping", "done"
  call,        \* the entry point called and its arguments
  attempt,     \* withRetry's loop counter
  lastError,   \* withRetry's lastError
  opCalls,     \* invocations of the retried operation so far
  opFails,     \* how many of them failed
  lastOp,      \* what the latest invocation returned or threw
  onRetryLog,  \* the (attempt, error id) arguments of the onRetry calls
  sleeps,      \* the delays of the backoff sleeps
  rpcCalls,    \* client.rpc calls issued
  rpcParams,   \* the arguments of the latest client.rpc call
  lastReply,   \* the backend's latest reply
  allReported, \* every reply so far was an error reported by the backend
  outcome      \* what the entry point returned or threw

searchVars ==
  << pc, call, attempt, lastError, opCalls, opFails, lastOp, onRetryLog,
     sleeps, rpcCalls, rpcParams, lastReply, allReported, outcome >>

\* The database executing match_documents_weighted.
VARIABLES
  dbpc,        \* "idle", "called" (the rpc arrived), "done"
  dbParams,    \* the arguments of the function call
  documents,   \* the rows of public.documents
  projected,   \* the SELECT list evaluated for one candidate row
  dbResult     \* what the function call produced

dbVars == << dbpc, dbParams, documents, projected, dbResult >>

\* DocumentManager.insertBatch: one call, as a record of its parameters
\* (documents, batchSize, onProgress), its locals (i, batch, results,
\* completed), the locals of the withRetry call in progress (attempt,
\* lastError), the rows of the table, and what was observed so far.
VARIABLES ib

\* One call of DocumentManager.insert, get, update, delete or count: its
\* arguments, the locals of its withRetry call, and what was observed.
VARIABLES dm

\* One call of generateEmbeddingsBatch: its options (texts, batchSize,
\* delayMs), its locals (i, batch, results, completed) and what was observed.
VARIABLES emb

\* Two withRetry calls running interleaved on the event loop.
VARIABLES
  frames,      \* the local variables attempt and lastError of each call
  runs         \* each call's position, options and observed history

pairVars == << frames, runs >>

\* One call of validateEmbeddingDimensions: its arguments and its result.
VARIABLES validation

vars == << searchVars, dbVars, ib, dm, emb, pairVars, validation >>

\* What the actions of each component leave alone.
outsideSearch == << dbVars, ib, dm, emb, pairVars, validation >>
outsideDb == << searchVars, ib, dm, emb, pairVars, validation >>
outsideBatch == << searchVars, dbVars, dm, emb, pairVars, validation >>
outsideDocument == << searchVars, dbVars, ib, emb, pairVars, validation >>
outsideEmbeddings == << searchVars, dbVars, ib, dm, pairVars, validation >>
outsidePair == << searchVars, dbVars, ib, dm, emb, validation >>
outsideValidation == << searchVars, dbVars, ib, dm, emb, pairVars >>

Init ==
  /\ pc = "idle"
  /\ call = [entry |-> "none", maxRetries |-> 0, initialDelayMs |-> 0,
             exponentialBackoff |-> FALSE, maxDelayMs |-> 0,
             options |-> NoOptions, expectedDimensions |-> NoNum]
  /\ attempt = 0
  /\ lastError = NoError
  /\ opCalls = 0
  /\ opFails = 0
  /\ lastOp = OpOk(<<>>)
  /\ onRetryLog = <<>>
  /\ sleeps = <<>>
  /\ rpcCalls = 0
  /\ rpcParams = NoParams
  /\ lastReply = NoReply
  /\ allReported = TRUE
  /\ outcome = NoOutcome

\* What the caller of the entry point sees when withRetry throws or returns:
\* search and searchWeighted pass a thrown error through their catch clause.
Surface(entry, result) ==
  IF result.kind = "throw" /\ entry \in {"search", "searchWeighted"}
    THEN Throw(catchSearch(result.error))
    ELSE result

\* withRetry enters its loop: the first invocation of the operation starts
\* (for a search, its rpc is issued), or the loop is skipped and lastError thrown.
EnterLoop(c, params) ==
  /\ call' = c
  /\ attempt' = 0
  /\ UNCHANGED << lastError, opFails, lastOp, onRetryLog, sleeps, lastReply,
                  allReported >>
  /\ IF LoopContinues(0, c.maxRetries)
       THEN /\ pc' = "running"
            /\ opCalls' = 1
            /\ rpcCalls' = IF params.fn = "none" THEN 0 ELSE 1
            /\ rpcParams' = params
            /\ outcome' = NoOutcome
       ELSE /\ pc' = "done"
            /\ outcome' = Surface(c.entry, Throw(lastError))
            /\ UNCHANGED << opCalls, rpcCalls, rpcParams >>

\* A validation failure: the entry point throws before withRetry is called.
FailFast(c, error) ==
  /\ call' = c
  /\ pc' = "done"
  /\ outcome' = Surface(c.entry, Throw(error))
  /\ UNCHANGED << attempt, lastError, opCalls, opFails, lastOp, onRetryLog,
                  sleeps, rpcCalls, rpcParams, lastReply, allReported >>

\* The retry options of a direct call, with their destructuring defaults.
RetryCall(entry, mr, idl, md, eb) ==
  [entry |-> entry,
   maxRetries |-> OrDefault(mr, DefaultMaxRetries),
   initialDelayMs |-> OrDefault(idl, DefaultInitialDelayMs),
   exponentialBackoff |-> eb,
   maxDelayMs |-> OrDefault(md, DefaultMaxDelayMs),
   options |-> NoOptions, expectedDimensions |-> NoNum]

\* A direct call withRetry(operation, options).
withRetry ==
  /\ UNCHANGED outsideSearch
  /\ pc = "idle"
  /\ \E mr \in MaxRetriesInputs, idl \in InitialDelayInputs,
        md \in MaxDelayInputs, eb \in BOOLEAN :
       EnterLoop(RetryCall("withRetry", mr, idl, md, eb), NoParams)

\* A call withConditionalRetry(operation, options): withRetry with the
\* user's onRetry wrapped.
withConditionalRetry ==
  /\ UNCHANGED outsideSearch
  /\ pc = "idle"
  /\ \E mr \in MaxRetriesInputs, idl \in InitialDelayInputs,
        md \in MaxDelayInputs, eb \in BOOLEAN :
       EnterLoop(RetryCall("withConditionalRetry", mr, idl, md, eb), NoParams)

SearchCall(entry, options, expectedDimensions) ==
  [entry |-> entry, maxRetries |-> SearchMaxRetries,
   initialDelayMs |-> DefaultInitialDelayMs, exponentialBackoff |-> TRUE,
   maxDelayMs |-> DefaultMaxDelayMs, options |-> options,
   expectedDimensions |-> expectedDimensions]

\* SearchManager.search(options, expectedDimensions).
search ==
  /\ UNCHANGED outsideSearch
  /\ pc = "idle"
  /\ \E q \in MainVecInputs \cup NonFiniteVecInputs, tc \in ThresholdCountInputs,
        ed \in ExpectedDimensionsInputs, f \in FilterInputs :
       LET options == [NoOptions EXCEPT !.queryEmbedding = q,
                         !.matchThreshold = tc[1], !.matchCount = tc[2],
                         !.filterMetadata = f]
           c == SearchCall("search", options, ed)
           error == searchValidation(options, ed)
       IN IF error # NoError
            THEN FailFast(c, error)
            ELSE EnterLoop(c, searchParams(options))

\* SearchManager.searchWeighted(options, expectedDimensions).
searchWeighted ==
  /\ UNCHANGED outsideSearch
  /\ pc = "idle"
  /\ \E q \in MainVecInputs, qs \in SectionInputs, tc \in ThresholdCountInputs,
        ed \in ExpectedDimensionsInputs,
        w1 \in WeightInputs, w2 \in WeightInputs, w3 \in WeightInputs,
        w4 \in WeightInputs :
       LET options == [NoOptions EXCEPT !.queryEmbedding = q,
                         !.querySection1 = qs[1], !.querySection2 = qs[2],
                         !.querySection3 = qs[3],
                         !.weightMain = w1, !.weightSection1 = w2,
                         !.weightSection2 = w3, !.weightSection3 = w4,
                         !.matchThreshold = tc[1], !.matchCount = tc[2]]
           c == SearchCall("searchWeighted", options, ed)
           error == searchWeightedValidation(options, ed)
       IN IF error # NoError
            THEN FailFast(c, error)
            ELSE EnterLoop(c, searchWeightedParams(options))

\* The invocation in flight settles with result r: withRetry returns it, or
\* runs its catch block (lastError, last-attempt test, onRetry, start of sleep).
Settle(r) ==
  /\ lastOp' = r
  /\ UNCHANGED << call, attempt, opCalls, rpcCalls, rpcParams >>
  /\ IF r.ok
       THEN /\ pc' = "done"
            /\ outcome' = Surface(call.entry, Return(r.value))
            /\ UNCHANGED << lastError, opFails, onRetryLog, sleeps >>
       ELSE /\ lastError' = NextLastError(lastError, r.error)
            /\ opFails' = opFails + 1
            /\ IF IsLastAttempt(attempt, call.maxRetries)
                 THEN /\ pc' = "done"
                      /\ outcome' = Surface(call.entry, Throw(lastError'))
                      /\ UNCHANGED << onRetryLog, sleeps >>
                 ELSE IF onRetryThrows(call.entry, lastError')
                 THEN /\ pc' = "done"
                      /\ outcome' = Surface(call.entry, Throw(lastError'))
                      /\ UNCHANGED << onRetryLog, sleeps >>
                 ELSE /\ pc' = "sleeping"
                      /\ onRetryLog' = Append(onRetryLog, <<attempt + 1, lastError'.id>>)
                      /\ sleeps' = Append(sleeps,
                           Delay(attempt, call.exponentialBackoff,
                                 call.initialDelayMs, call.maxDelayMs))
                      /\ UNCHANGED outcome

\* The operation given to withRetry directly returns or throws.
OperationSettles ==
  /\ UNCHANGED outsideSearch
  /\ pc = "running"
  /\ call.entry \in {"withRetry", "withConditionalRetry"}
  /\ \E r \in DirectResults(opCalls) : Settle(r)
  /\ UNCHANGED << lastReply, allReported >>

\* The backend answers the rpc in flight.
BackendAnswers ==
  /\ UNCHANGED outsideSearch
  /\ pc = "running"
  /\ call.entry \in {"search", "searchWeighted"}
  /\ \E reply \in BackendReplies :
       /\ lastReply' = reply
       /\ allReported' = (allReported /\ reply.kind = "error")
       /\ Settle(rpcOperation(reply, opCalls))

\* The backoff timer fires: attempt++, the loop condition, the next invocation.
SleepElapses ==
  /\ UNCHANGED outsideSearch
  /\ pc = "sleeping"
  /\ attempt' = attempt + 1
  /\ UNCHANGED << call, lastError, opFails, lastOp, onRetryLog, sleeps,
                  rpcParams, lastReply, allReported >>
  /\ IF LoopContinues(attempt', call.maxRetries)
       THEN /\ pc' = "running"
            /\ opCalls' = opCalls + 1
            /\ rpcCalls' = IF rpcParams.fn = "none" THEN rpcCalls ELSE rpcCalls + 1
            /\ UNCHANGED outcome
       ELSE /\ pc' = "done"
            /\ outcome' = Surface(call.entry, Throw(lastError))
            /\ UNCHANGED << opCalls, rpcCalls >>

Next ==
  \/ withRetry
  \/ withConditionalRetry
  \/ search
  \/ searchWeighted
  \/ OperationSettles
  \/ BackendAnswers
  \/ SleepElapses

\* -------------- supabase/migrations/001_enable_pgvector.sql: match_documents_weighted
\* A stored embedding: NULL, or a vector, known by its cosine similarity (in
\* thousandths) to the query vector of its slot.
NullEmbedding == [some |-> FALSE, sim |-> 0]
StoredEmbedding(sim) == [some |-> TRUE, sim |-> sim]

\* 1 - (column <=> query): NULL when an operand is NULL.
OneMinusDistance(column, query) ==
  IF column.some /\ query.some THEN Num(column.sim) ELSE NoNum

\* COALESCE(x, d)
Coalesce(x, d) == IF x.some THEN x.v ELSE d

\* x * w: NULL when x is NULL.
Times(x, w) == IF x.some THEN Num(x.v * w) ELSE NoNum

\* query_section_i IS NOT NULL AND documents.embedding_section_i IS NOT NULL
BothPresent(doc, params, i) ==
  params.query_sections[i].some /\ doc.sections[i].some

\* A main term that forgets its weight.
MainTermUnweighted(doc, params) ==
  Coalesce(OneMinusDistance(doc.embedding, params.query_embedding), 0)
    * params.weights.den

\* COALESCE(1 - (documents.embedding <=> query_embedding), 0) * weight_main,
\* as a numerator over the weights' common denominator.
MainTerm(doc, params) ==
  Coalesce(OneMinusDistance(doc.embedding, params.query_embedding), 0)
    * params.weights.nums[1]

\* A section term that forgets its weight.
SectionTermUnweighted(doc, params, i) ==
  Coalesce(IF BothPresent(doc, params, i)
             THEN Times(OneMinusDistance(doc.sections[i], params.query_sections[i]),
                        params.weights.den)
             ELSE Num(0),
           0)

\* COALESCE(CASE WHEN ... THEN (1 - (...)) * weight_section_i ELSE 0 END, 0)
SectionTerm(doc, params, i) ==
  Coalesce(IF BothPresent(doc, params, i)
             THEN Times(OneMinusDistance(doc.sections[i], params.query_sections[i]),
                        params.weights.nums[i + 1])
             ELSE Num(0),
           0)

\* The expression selected AS similarity and tested by HAVING: its numerator
\* over params.weights.den, in thousandths.
weightedSimilarity(doc, params) ==
  MainTerm(doc, params) + SectionTerm(doc, params, 1)
    + SectionTerm(doc, params, 2) + SectionTerm(doc, params, 3)

\* The SELECT list for one row of documents.
SelectList(doc, params) ==
  [id |-> doc.id,
   metadata |-> doc.metadata,
   similarity |-> [num |-> weightedSimilarity(doc, params),
                   den |-> params.weights.den],
   similarity_main |-> OneMinusDistance(doc.embedding, params.query_embedding),
   similarity_sections |->
     [i \in 1..3 |->
        IF BothPresent(doc, params, i)
          THEN OneMinusDistance(doc.sections[i], params.query_sections[i])
          ELSE NoNum]]
NoRow ==
  [id |-> 0, metadata |-> {}, similarity |-> [num |-> 0, den |-> 1],
   similarity_main |-> NoNum, similarity_sections |-> <<NoNum, NoNum, NoNum>>]

\* filter_metadata IS NULL OR documents.metadata @> filter_metadata
WhereClause(doc, params) ==
  ~params.filter_metadata.some \/ params.filter_metadata.v \in doc.metadata

\* (...) >= match_threshold
HavingClause(doc, params) ==
  weightedSimilarity(doc, params) >= params.match_threshold * params.weights.den

\* The clauses of the statement, and the columns of documents that its SELECT
\* list and HAVING clause read outside any aggregate function.
QueryClauses == {"SELECT", "FROM", "WHERE", "HAVING", "ORDER BY", "LIMIT"}
GroupingColumns == {}
UngroupedReferences ==
  {"id", "content", "metadata", "embedding", "embedding_section_1",
   "embedding_section_2", "embedding_section_3"}

\* PostgreSQL treats a statement with HAVING or GROUP BY as a grouped query and
\* rejects one that reads a column that is neither grouped nor aggregated.
GroupingError ==
  /\ QueryClauses \cap {"HAVING", "GROUP BY"} # {}
  /\ ~(UngroupedReferences \subseteq GroupingColumns)

\* ORDER BY similarity DESC (rows of equal similarity by id here).
RECURSIVE OrderBySimilarityDesc(_, _)
OrderBySimilarityDesc(rows, params) ==
  IF rows = {} THEN <<>>
  ELSE LET first == CHOOSE r \in rows : \A o \in rows :
                      \/ weightedSimilarity(r, params) > weightedSimilarity(o, params)
                      \/ /\ weightedSimilarity(r, params) = weightedSimilarity(o, params)
                         /\ r.id <= o.id
       IN <<first>> \o OrderBySimilarityDesc(rows \ {first}, params)

\* RETURN QUERY SELECT ... FROM documents WHERE ... HAVING ... ORDER BY ... LIMIT.
match_documents_weighted(params, table) ==
  IF GroupingError
    THEN [ok |-> FALSE, code |-> "42803", rows |-> <<>>]
    ELSE LET kept == { d \in table : WhereClause(d, params) /\ HavingClause(d, params) }
             ordered == OrderBySimilarityDesc(kept, params)
             limited == SubSeq(ordered, 1, Min(params.match_count, Len(ordered)))
         IN [ok |-> TRUE, code |-> "",
             rows |-> [i \in 1..Len(limited) |-> SelectList(limited[i], params)]]
NoResult == [ok |-> FALSE, code |-> "none", rows |-> <<>>]

Document(id, metadata, main, s1, s2, s3) ==
  [id |-> id, metadata |-> metadata, embedding |-> main, sections |-> <<s1, s2, s3>>]
DocumentInputs ==
  { Document(1, {"category=tech"}, StoredEmbedding(1000), StoredEmbedding(1000),
             StoredEmbedding(1000), StoredEmbedding(1000)),
    Document(2, {"category=tech", "lang=en"}, StoredEmbedding(500), NullEmbedding,
             StoredEmbedding(1000), NullEmbedding),
    Document(3, {"category=news"}, NullEmbedding, StoredEmbedding(500),
             StoredEmbedding(0), StoredEmbedding(1000)),
    Document(4, {}, StoredEmbedding(-500), NullEmbedding, NullEmbedding,
             NullEmbedding),
    Document(5, {"category=tech"}, StoredEmbedding(800), StoredEmbedding(0),
             NullEmbedding, StoredEmbedding(500)) }
TableInputs == { t \in SUBSET DocumentInputs : Cardinality(t) <= MaxDocuments }

dbIdle ==
  /\ dbpc = "idle"
  /\ dbParams = NoParams
  /\ documents = {}
  /\ projected = NoRow
  /\ dbResult = NoResult

\* searchWeighted's rpc reaches the database.
rpcWeighted ==
  /\ dbpc = "idle"
  /\ \E qs \in SectionInputs, tc \in ThresholdCountInputs, f \in FilterInputs,
        w1 \in WeightInputs, w2 \in WeightInputs, w3 \in WeightInputs,
        w4 \in WeightInputs, table \in TableInputs :
       LET options == [NoOptions EXCEPT !.queryEmbedding = GoodVec,
                         !.querySection1 = qs[1], !.querySection2 = qs[2],
                         !.querySection3 = qs[3],
                         !.weightMain = w1, !.weightSection1 = w2,
                         !.weightSection2 = w3, !.weightSection3 = w4,
                         !.matchThreshold = tc[1], !.matchCount = tc[2],
                         !.filterMetadata = f]
       IN /\ searchWeightedValidation(options, NoNum) = NoError
          /\ dbParams' = searchWeightedParams(options)
          /\ documents' = table
  /\ dbpc' = "called"
  /\ UNCHANGED << projected, dbResult, outsideDb >>

\* The SELECT list is evaluated for one row of documents.
EvaluateSelectList ==
  /\ dbpc = "called"
  /\ \E d \in documents : projected' = SelectList(d, dbParams)
  /\ UNCHANGED << dbpc, dbParams, documents, dbResult, outsideDb >>

\* The function call completes.
ExecuteQuery ==
  /\ dbpc = "called"
  /\ dbResult' = match_documents_weighted(dbParams, documents)
  /\ dbpc' = "done"
  /\ UNCHANGED << dbParams, documents, projected, outsideDb >>

NextWeighted ==
  \/ rpcWeighted
  \/ EvaluateSelectList
  \/ ExecuteQuery

\* ------------------------------------- document/manager.ts: insertBatch
\* A slice that takes the element at its end index too.
SliceInclusive(docs, i, j) == SubSeq(docs, i + 1, Min(j + 1, Len(docs)))

\* documents.slice(i, i + batchSize)
Slice(docs, i, j) == SubSeq(docs, i + 1, Min(j, Len(docs)))

\* completed += batchSize
NextCompletedBySize(completed, batch, batchSize) == completed + batchSize

\* completed += batch.length
NextCompleted(completed, batch, batchSize) == completed + Len(batch)

\* A catch clause that lets the error through as it is.
catchInsertBatchRethrow(error) == error

\* The catch clause of insertBatch.
catchInsertBatch(error) ==
  IF error.cls = "SearchError"
    THEN error
    ELSE SearchError(<<"Unexpected error in batch insert">> \o error.msg, "", 0)

\* What the table's insert(...).select() may do: insert the rows and return
\* them, report an error, fail before the rows are written, or write the rows
\* and lose the reply.
InsertReplies == {"data", "error", "throw", "lost"}

\* The retried operation of insertBatch, given the reply to request number id.
insertOperation(reply, batch, id) ==
  IF reply = "data" THEN OpOk(batch)
  ELSE IF reply = "error"
    THEN OpFail(SearchError(<<"Failed to insert batch", "backend message">>,
                            "23505", id))
  ELSE OpFail(RawError(<<"fetch failed">>, id))

\* The content of each document of the list: text, or, for the last document
\* of a short list, spaces only.
BatchContents(n, blank) ==
  [d \in 1..n |-> IF blank /\ d = n /\ n <= MaxBlankBatch THEN <<" ">> ELSE <<"a">>]

ibIdle ==
  ib = [pc |-> "idle", documents |-> <<>>, contents |-> <<>>, batchSize |-> 0,
        onProgress |-> FALSE,
        i |-> 0, batch |-> <<>>, results |-> <<>>, completed |-> 0,
        attempt |-> 0, lastError |-> NoError,
        requests |-> <<>>, table |-> <<>>, progress |-> <<>>, retries |-> 0,
        outcome |-> NoOutcome]

\* The for loop's test, and with it either the next chunk's withRetry call,
\* whose first insert request goes out, or `return results`.
LoopTest(st) ==
  IF st.i < Len(st.documents)
    THEN LET batch == Slice(st.documents, st.i, st.i + st.batchSize)
         IN [st EXCEPT !.pc = "inserting", !.batch = batch, !.attempt = 0,
                       !.lastError = NoError,
                       !.requests = Append(st.requests, st.i)]
    ELSE [st EXCEPT !.pc = "done", !.outcome = Return(st.results)]

\* DocumentManager.insertBatch(documents, batchSize, onProgress).
insertBatch ==
  /\ ib.pc = "idle"
  /\ \E n \in 0..MaxBatchDocuments, b \in 1..MaxBatchSize, p \in BOOLEAN,
        blank \in BOOLEAN :
       LET st == [ib EXCEPT !.documents = [d \in 1..n |-> d],
                            !.contents = BatchContents(n, blank),
                            !.batchSize = b, !.onProgress = p]
       IN ib' = IF n = 0
                  THEN [st EXCEPT !.pc = "done", !.outcome = Return(<<>>)]
                  ELSE LoopTest(st)
  /\ UNCHANGED outsideBatch

\* The insert in flight is answered: the chunk is done (push, completed,
\* onProgress, i += batchSize, the loop test), or withRetry's catch block runs.
InsertAnswers ==
  /\ ib.pc = "inserting"
  /\ \E reply \in InsertReplies :
       LET r == insertOperation(reply, ib.batch, Len(ib.requests))
           written == IF reply \in {"data", "lost"}
                        THEN ib.table \o ib.batch
                        ELSE ib.table
           st == [ib EXCEPT !.table = written]
       IN ib' =
            IF r.ok
              THEN LET completed == NextCompleted(st.completed, st.batch, st.batchSize)
                   IN LoopTest([st EXCEPT
                        !.results = st.results \o r.value,
                        !.completed = completed,
                        !.progress =
                          IF st.onProgress
                            THEN Append(st.progress,
                                   [completed |-> completed,
                                    total |-> Len(st.documents),
                                    requests |-> st.requests,
                                    table |-> written])
                            ELSE st.progress,
                        !.i = st.i + st.batchSize])
            ELSE LET last == NextLastError(st.lastError, r.error)
                 IN IF IsLastAttempt(st.attempt, BatchMaxRetries)
                      THEN [st EXCEPT !.pc = "done", !.lastError = last,
                                      !.outcome = Throw(catchInsertBatch(last))]
                      ELSE [st EXCEPT !.pc = "sleeping", !.lastError = last,
                                      !.retries = st.retries + 1]
  /\ UNCHANGED outsideBatch

\* The backoff timer fires: attempt++, the loop condition, the next request.
InsertSleepElapses ==
  /\ ib.pc = "sleeping"
  /\ ib' = IF LoopContinues(ib.attempt + 1, BatchMaxRetries)
             THEN [ib EXCEPT !.pc = "inserting", !.attempt = ib.attempt + 1,
                             !.requests = Append(ib.requests, ib.i)]
             ELSE [ib EXCEPT !.pc = "done", !.attempt = ib.attempt + 1,
                             !.outcome = Throw(catchInsertBatch(ib.lastError))]
  /\ UNCHANGED outsideBatch

NextBatch ==
  \/ insertBatch
  \/ InsertAnswers
  \/ InsertSleepElapses

\* ------------------------------------- utils/retry.ts: interleaved calls
Calls == {1, 2}

\* One frame for all calls, as module-level variables would be.
SharedFrame(c) == 1

\* Each call has its own `let lastError` and its own loop variable attempt.
Frame(c) == c

NoRun ==
  [pc |-> "idle", maxRetries |-> 0, inFlight |-> 0, started |-> 0, failed |-> 0,
   slept |-> 0, history |-> <<>>, outcome |-> NoOutcome]

pairIdle ==
  /\ frames = [c \in Calls |-> [attempt |-> 0, lastError |-> NoError]]
  /\ runs = [c \in Calls |-> NoRun]

\* operation() is called: one more invocation in flight.
Invoke(run) ==
  [run EXCEPT !.pc = "running", !.inFlight = @ + 1, !.started = @ + 1]

\* A sleep that is not awaited: the next invocation starts at once.
SleepNotAwaited(run) == Invoke(run)

\* await new Promise((resolve) => setTimeout(resolve, delay))
AwaitSleep(run) == [run EXCEPT !.pc = "sleeping"]

\* What operation number k of call c returns or throws.
PairResults(c, k) == { OpOk(<<c, k>>), OpFail(RawError(<<"boom">>, 10 * c + k)) }

\* Call c of withRetry(operation, {maxRetries}) enters its loop.
withRetryCall(c) ==
  /\ runs[c].pc = "idle"
  /\ \E mr \in 0..MaxRetriesBound :
       /\ frames' = [frames EXCEPT ![Frame(c)] = [attempt |-> 0, lastError |-> NoError]]
       /\ runs' = [runs EXCEPT ![c] =
            IF LoopContinues(0, mr)
              THEN Invoke([NoRun EXCEPT !.maxRetries = mr])
              ELSE [NoRun EXCEPT !.maxRetries = mr, !.pc = "done",
                                 !.outcome = Throw(NoError)]]
  /\ UNCHANGED outsidePair

\* The invocation in flight in call c settles: return, or the catch block.
OperationSettlesIn(c) ==
  /\ runs[c].pc = "running"
  /\ \E r \in PairResults(c, runs[c].started) :
       LET run == [runs[c] EXCEPT !.inFlight = @ - 1,
                                  !.history = Append(@, r)]
           f == frames[Frame(c)]
           last == NextLastError(f.lastError, r.error)
       IN IF r.ok
            THEN /\ runs' = [runs EXCEPT ![c] =
                      [run EXCEPT !.pc = "done", !.outcome = Return(r.value)]]
                 /\ UNCHANGED frames
            ELSE /\ frames' = [frames EXCEPT ![Frame(c)].lastError = last]
                 /\ runs' = [runs EXCEPT ![c] =
                      IF IsLastAttempt(f.attempt, run.maxRetries)
                        THEN [run EXCEPT !.pc = "done", !.failed = @ + 1,
                                         !.outcome = Throw(last)]
                        ELSE AwaitSleep([run EXCEPT !.failed = @ + 1])]
  /\ UNCHANGED outsidePair

\* Call c's backoff timer fires: attempt++, the loop condition, the next
\* invocation.
SleepElapsesIn(c) ==
  /\ runs[c].pc = "sleeping"
  /\ LET f == frames[Frame(c)]
         run == [runs[c] EXCEPT !.slept = @ + 1]
     IN /\ frames' = [frames EXCEPT ![Frame(c)].attempt = f.attempt + 1]
        /\ runs' = [runs EXCEPT ![c] =
             IF LoopContinues(f.attempt + 1, run.maxRetries)
               THEN Invoke(run)
               ELSE [run EXCEPT !.pc = "done", !.outcome = Throw(f.lastError)]]
  /\ UNCHANGED outsidePair

NextPair ==
  \E c \in Calls :
    \/ withRetryCall(c)
    \/ OperationSettlesIn(c)
    \/ SleepElapsesIn(c)

\* ------------------------------- embeddings/index.ts: the validator alone
\* What a caller may pass as the embedding: undefined, a value that is not an
\* array, or an array of numbers, NaN, Infinity and strings.
ElementInputs == {1, NaNVal, InfVal, NegInfVal, StrVal}
NotAnArray == [some |-> TRUE, isArray |-> FALSE, elems |-> <<>>]
EmbeddingInputs ==
  {NoVec, NotAnArray}
    \cup UNION { { Vec(e) : e \in [1..n -> ElementInputs] } : n \in 0..(Dim + 1) }

validationIdle ==
  validation = [pc |-> "idle", embedding |-> NoVec, expectedDimensions |-> 0,
                result |-> NoError]

\* validateEmbeddingDimensions(embedding, expectedDimensions) is called and
\* throws or returns.
validateCall ==
  /\ validation.pc = "idle"
  /\ \E e \in EmbeddingInputs, d \in 0..Dim :
       validation' = [pc |-> "done", embedding |-> e, expectedDimensions |-> d,
                      result |-> validateEmbeddingDimensions(e, d)]
  /\ UNCHANGED outsideValidation

NextValidation == validateCall

\* --------------------- document/manager.ts: insert, get, update, delete, count
\* A document's content: undefined, or a string of spaces and letters.
NoContent == [some |-> FALSE, chars |-> <<>>]
Content(chars) == [some |-> TRUE, chars |-> chars]

RECURSIVE TrimStart(_)
TrimStart(chars) ==
  IF chars # <<>> /\ Head(chars) = " " THEN TrimStart(Tail(chars)) ELSE chars

RECURSIVE TrimEnd(_)
TrimEnd(chars) ==
  IF chars # <<>> /\ chars[Len(chars)] = " "
    THEN TrimEnd(SubSeq(chars, 1, Len(chars) - 1))
    ELSE chars

\* String.prototype.trim
Trim(chars) == TrimEnd(TrimStart(chars))

\* !document.content
IsBlankNoTrim(content) == ~content.some \/ content.chars = <<>>

\* !document.content || !document.content.trim()
IsBlank(content) ==
  ~content.some \/ content.chars = <<>> \/ Trim(content.chars) = <<>>

ContentInputs ==
  {NoContent}
    \cup UNION { { Content(c) : c \in [1..n -> {" ", "a"}] } : n \in 0..MaxContentLen }

DocumentOps == {"insert", "get", "update", "delete", "count"}

\* What the backend may answer: the data asked for, no data and no error, an
\* error object with a code (PGRST116: no row found), or a failed request.
DocumentReplies ==
  { [kind |-> "data", code |-> ""], [kind |-> "null", code |-> ""],
    [kind |-> "error", code |-> "PGRST116"], [kind |-> "error", code |-> "08006"],
    [kind |-> "throw", code |-> ""] }

\* The value the retried operation returns for a reply without error.
DocumentValue(op, reply) ==
  IF op = "delete" THEN <<>>
  ELSE IF op = "count" THEN (IF reply.kind = "data" THEN <<2>> ELSE <<0>>)
  ELSE IF reply.kind = "data" THEN <<"row">> ELSE <<>>

\* An operation that takes PGRST116 for "not found" whatever is asked.
documentOperationNotFoundAnywhere(op, reply, id) ==
  IF reply.kind = "throw" THEN OpFail(RawError(<<"fetch failed">>, id))
  ELSE IF reply.kind = "error"
    THEN IF reply.code = "PGRST116"
           THEN OpOk(<<>>)
           ELSE OpFail(SearchError(<<"Failed to", op, "backend message">>,
                                   reply.code, id))
  ELSE OpOk(DocumentValue(op, reply))

\* The retried operation of insert, get, update, delete and count, given the
\* backend's reply to call number id.
documentOperation(op, reply, id) ==
  IF reply.kind = "throw" THEN OpFail(RawError(<<"fetch failed">>, id))
  ELSE IF reply.kind = "error"
    THEN IF op = "get" /\ reply.code = "PGRST116"
           THEN OpOk(<<>>)
           ELSE OpFail(SearchError(<<"Failed to", op, "backend message">>,
                                   reply.code, id))
  ELSE OpOk(DocumentValue(op, reply))

\* The catch clauses: insert lets ValidationError and SearchError through,
\* the others SearchError only; anything else is wrapped.
catchDocument(op, error) ==
  IF error.cls = "SearchError" \/ (op = "insert" /\ error.cls = "ValidationError")
    THEN error
    ELSE SearchError(<<"Unexpected error">> \o error.msg, "", 0)

dmIdle ==
  dm = [pc |-> "idle", op |-> "none", content |-> NoContent, attempt |-> 0,
        lastError |-> NoError, calls |-> 0, replies |-> <<>>, retries |-> 0,
        outcome |-> NoOutcome]

\* One of the five operations is called: insert checks the content, then
\* withRetry starts and the first backend call goes out.
documentCall ==
  /\ dm.pc = "idle"
  /\ ib.pc = "idle"
  /\ \E op \in DocumentOps, content \in ContentInputs :
       /\ op # "insert" => content = NoContent
       /\ dm' = IF op = "insert" /\ IsBlank(content)
                  THEN [dm EXCEPT !.pc = "done", !.op = op, !.content = content,
                          !.outcome = Throw(catchDocument(op,
                            ValidationError(<<"Document content is required">>,
                                            "content")))]
                  ELSE [dm EXCEPT !.pc = "calling", !.op = op,
                          !.content = content, !.calls = 1]
  /\ UNCHANGED outsideDocument

\* The backend call in flight is answered: withRetry returns the operation's
\* value, or its catch block runs.
DocumentAnswers ==
  /\ dm.pc = "calling"
  /\ \E reply \in DocumentReplies :
       LET r == documentOperation(dm.op, reply, dm.calls)
           st == [dm EXCEPT !.replies = Append(@, reply)]
           last == NextLastError(dm.lastError, r.error)
       IN dm' =
            IF r.ok
              THEN [st EXCEPT !.pc = "done", !.outcome = Return(r.value)]
            ELSE IF IsLastAttempt(dm.attempt, DocumentMaxRetries)
              THEN [st EXCEPT !.pc = "done", !.lastError = last,
                              !.outcome = Throw(catchDocument(dm.op, last))]
            ELSE [st EXCEPT !.pc = "sleeping", !.lastError = last,
                            !.retries = @ + 1]
  /\ UNCHANGED outsideDocument

\* The backoff timer fires: attempt++, the loop condition, the next call.
DocumentSleepElapses ==
  /\ dm.pc = "sleeping"
  /\ dm' = IF LoopContinues(dm.attempt + 1, DocumentMaxRetries)
             THEN [dm EXCEPT !.pc = "calling", !.attempt = @ + 1,
                             !.calls = @ + 1]
             ELSE [dm EXCEPT !.pc = "done", !.attempt = @ + 1,
                             !.outcome = Throw(catchDocument(dm.op, dm.lastError))]
  /\ UNCHANGED outsideDocument

\* insertBatch as the sixth operation of the manager.
BatchOperation ==
  /\ dm.pc = "idle"
  /\ NextBatch

NextDocument ==
  \/ documentCall
  \/ DocumentAnswers
  \/ DocumentSleepElapses
  \/ BatchOperation

\* ----------------------------- embeddings/index.ts: generateEmbeddingsBatch
\* The texts a caller may pass: two words, the empty string and a space.
TextInputs == { <<"a">>, <<"b">>, <<>>, <<" ">> }

\* text && text.trim().length > 0
IsValidText(text) == text # <<>> /\ Len(Trim(text)) > 0

\* batch.filter(...)
FilterValid(batch) == SelectSeq(batch, IsValidText)

\* What provider.generateEmbedding(texts) resolves to: one embedding per
\* text, in order.
EmbeddingOf(text) == [of |-> text]
ProviderEmbeddings(batch) == [x \in 1..Len(batch) |-> EmbeddingOf(batch[x])]

\* The catch clause of generateEmbeddingsBatch.
catchEmbeddingsBatch(error) ==
  IF error.cls = "EmbeddingError"
    THEN error
    ELSE EmbeddingError(<<"Failed to generate batch embeddings">> \o error.msg,
                        "BATCH_GENERATION_FAILED")

embIdle ==
  emb = [pc |-> "idle", texts |-> <<>>, batchSize |-> 0, delayMs |-> 0,
        i |-> 0, batch |-> <<>>, results |-> <<>>, completed |-> 0,
        progress |-> <<>>, providerCalls |-> <<>>, outcome |-> NoOutcome]

\* The rest of an iteration once the batch's embeddings are in results:
\* completed, onProgress, and the delay before the next batch.
AfterBatch(st) ==
  LET done == [st EXCEPT !.completed = @ + Len(st.batch),
                         !.progress = Append(@, st.completed + Len(st.batch))]
  IN IF done.delayMs > 0 /\ done.i + done.batchSize < Len(done.texts)
       THEN [done EXCEPT !.pc = "delaying"]
       ELSE [done EXCEPT !.pc = "looping", !.i = @ + done.batchSize]

\* The loop test and the head of an iteration: slice, filter, and the call of
\* the provider when a text is left; or `return results`.
Iterate(st) ==
  IF st.i < Len(st.texts)
    THEN LET batch == Slice(st.texts, st.i, st.i + st.batchSize)
             validBatch == FilterValid(batch)
             cur == [st EXCEPT !.batch = batch]
         IN IF Len(validBatch) > 0
              THEN [cur EXCEPT !.pc = "embedding",
                               !.providerCalls = Append(@, validBatch)]
              ELSE AfterBatch(cur)
    ELSE [st EXCEPT !.pc = "done", !.outcome = Return(st.results)]

\* generateEmbeddingsBatch({texts, batchSize, delayMs, onProgress}, provider).
generateEmbeddingsBatch ==
  /\ emb.pc = "idle"
  /\ \E n \in 0..MaxTexts, b \in 1..MaxBatchSize, d \in {0, 1000} :
       \E texts \in [1..n -> TextInputs] :
         LET st == [emb EXCEPT !.texts = texts, !.batchSize = b, !.delayMs = d]
         IN emb' = IF n = 0
                    THEN [st EXCEPT !.pc = "done", !.outcome = Return(<<>>)]
                    ELSE Iterate(st)
  /\ UNCHANGED outsideEmbeddings

\* The provider answers: the embeddings are pushed, or the error is caught.
ProviderAnswers ==
  /\ emb.pc = "embedding"
  /\ \/ emb' = AfterBatch([emb EXCEPT !.results =
                  @ \o ProviderEmbeddings(FilterValid(emb.batch))])
     \/ emb' = [emb EXCEPT !.pc = "done",
                 !.outcome = Throw(catchEmbeddingsBatch(
                               RawError(<<"provider failed">>, Len(emb.providerCalls))))]
  /\ UNCHANGED outsideEmbeddings

\* The delay between two batches elapses: i += batchSize.
DelayElapses ==
  /\ emb.pc = "delaying"
  /\ emb' = [emb EXCEPT !.pc = "looping", !.i = @ + emb.batchSize]
  /\ UNCHANGED outsideEmbeddings

\* The loop goes on with its test.
NextIteration ==
  /\ emb.pc = "looping"
  /\ emb' = Iterate(emb)
  /\ UNCHANGED outsideEmbeddings

NextEmbeddings ==
  \/ generateEmbeddingsBatch
  \/ ProviderAnswers
  \/ DelayElapses
  \/ NextIteration

\* ------------------------------------------------------ specifications
InitAll ==
  Init /\ dbIdle /\ ibIdle /\ dmIdle /\ embIdle /\ pairIdle /\ validationIdle
Spec == InitAll /\ [][Next]_vars
SpecWeighted == InitAll /\ [][NextWeighted]_vars
SpecBatch == InitAll /\ [][NextBatch]_vars
SpecDocument == InitAll /\ [][NextDocument]_vars
\* Every insert request is answered and every backoff timer fires.
SpecBatchFair ==
  SpecBatch /\ WF_vars(InsertAnswers) /\ WF_vars(InsertSleepElapses)
SpecEmbeddings == InitAll /\ [][NextEmbeddings]_vars
SpecPair == InitAll /\ [][NextPair]_vars
SpecValidation == InitAll /\ [][NextValidation]_vars

\* ================================================================ claims
IsSearch == call.entry \in {"search", "searchWeighted"}
Present(q) == q.some /\ q.isArray
QueryVectors ==
  << call.options.queryEmbedding, call.options.querySection1,
     call.options.querySection2, call.options.querySection3 >>
SuppliedWeights ==
  << call.options.weightMain, call.options.weightSection1,
     call.options.weightSection2, call.options.weightSection3 >>

\* C1: a withRetry call whose operation fails maxRetries times and then
\* succeeds returns that success value after exactly maxRetries onRetry
\* calls; a call whose operation failed at every invocation raises, and has
\* then invoked the operation exactly maxRetries + 1 times.
C1_RetryBudget ==
  (pc = "done" /\ call.entry = "withRetry") =>
    /\ (lastOp.ok /\ opFails = call.maxRetries) =>
         /\ outcome = Return(lastOp.value)
         /\ Len(onRetryLog) = call.maxRetries
         /\ opCalls = call.maxRetries + 1
    /\ (~lastOp.ok) =>
         /\ outcome.kind = "throw"
         /\ opFails = opCalls
         /\ opCalls = call.maxRetries + 1

C1_Witness ==
  /\ pc = "done" /\ call.entry = "withRetry"
  /\ call.maxRetries = MaxRetriesBound
  /\ opFails = call.maxRetries
  /\ outcome.kind = "return"
  /\ Len(onRetryLog) = MaxRetriesBound

\* C2: when every attempt of a withRetry call failed, the error raised is
\* the error object thrown by the final attempt, number maxRetries + 1,
\* unchanged.
C2_LastErrorRaised ==
  (pc = "done" /\ call.entry = "withRetry" /\ outcome.kind = "throw") =>
    /\ outcome.error = lastOp.error
    /\ outcome.error.id = call.maxRetries + 1
    /\ outcome.error.cls = "Error"

C2_Witness ==
  /\ pc = "done" /\ call.entry = "withRetry" /\ outcome.kind = "throw"
  /\ call.maxRetries = MaxRetriesBound
  /\ outcome.error.id = MaxRetriesBound + 1
  /\ outcome.error.msg = <<"boom">>

\* C3: a search or searchWeighted call whose main query vector is absent or
\* empty, or one of whose present query vectors fails the dimension
\* validator, or whose four weights are all zero, issues no rpc, calls no
\* retry callback and sleeps no backoff.
C3_DimensionFailure ==
  /\ call.expectedDimensions.some
  /\ \E i \in 1..4 : /\ Present(QueryVectors[i])
                     /\ Len(QueryVectors[i].elems) # call.expectedDimensions.v
C3_ValidationFailure ==
  \/ ~call.options.queryEmbedding.some
  \/ Len(call.options.queryEmbedding.elems) = 0
  \/ C3_DimensionFailure
  \/ /\ call.entry = "searchWeighted"
     /\ \A i \in 1..4 : SuppliedWeights[i] = Num(0)

C3_ValidationFailsFast ==
  (IsSearch /\ C3_ValidationFailure) =>
    /\ pc = "done"
    /\ outcome.kind = "throw"
    /\ rpcCalls = 0
    /\ opCalls = 0
    /\ onRetryLog = <<>>
    /\ sleeps = <<>>

C3_Witness ==
  /\ pc = "done" /\ call.entry = "searchWeighted"
  /\ call.options.queryEmbedding = GoodVec
  /\ call.options.querySection3 = ShortVec
  /\ call.expectedDimensions = Num(Dim)
  /\ outcome.kind = "throw"
  /\ rpcCalls = 0

\* C4: when the backend reported an error at every attempt of a search or
\* searchWeighted call, the call has issued exactly 4 rpcs and raises a
\* SearchError created at the final attempt that carries the code the
\* backend reported at that attempt.
C4_FinalBackendError ==
  (pc = "done" /\ IsSearch /\ rpcCalls >= 1 /\ allReported) =>
    /\ rpcCalls = 4
    /\ outcome.kind = "throw"
    /\ outcome.error.cls = "SearchError"
    /\ outcome.error.code = lastReply.code
    /\ outcome.error.id = 4

C4_Witness ==
  /\ pc = "done" /\ call.entry = "search" /\ allReported
  /\ rpcCalls = 4
  /\ lastReply.code = "42883"
  /\ lastError.code = "42883"
  /\ outcome.error.code = "42883"

\* The searchWeighted call in progress has dispatched its rpc.
Dispatched == call.entry = "searchWeighted" /\ rpcCalls >= 1
\* The caller's weight of slot i, an unset slot counted with its default.
Supplied(i) == IF SuppliedWeights[i].some THEN SuppliedWeights[i].v ELSE DefaultWeight
SuppliedTotal == Supplied(1) + Supplied(2) + Supplied(3) + Supplied(4)
\* The dispatched weight of slot i equals the rational n / d.
DispatchedIs(i, n, d) == rpcParams.weights.nums[i] * d = n * rpcParams.weights.den

\* C5: the four weights searchWeighted dispatches sum to 1.0 within 1e-6,
\* whenever the caller's weights (unset ones at their default) are
\* non-negative with a positive total.
C5_DispatchedSumIsOne ==
  (Dispatched /\ SuppliedTotal > 0 /\ \A i \in 1..4 : Supplied(i) >= 0) =>
    Abs(Sum4(rpcParams.weights.nums) - rpcParams.weights.den) * 1000000
      <= rpcParams.weights.den

\* C5 (amended): the four weights searchWeighted dispatches sum to 1.0
\* within 0.01, and within 1e-6 whenever the total of the caller's weights
\* differs from 1.0 by more than 0.01.
C5_DispatchedSumNearOne ==
  (Dispatched /\ SuppliedTotal > 0 /\ \A i \in 1..4 : Supplied(i) >= 0) =>
    /\ Abs(Sum4(rpcParams.weights.nums) - rpcParams.weights.den) * One
         <= Tolerance * rpcParams.weights.den
    /\ (Abs(SuppliedTotal - One) > Tolerance) =>
         Abs(Sum4(rpcParams.weights.nums) - rpcParams.weights.den) * 1000000
           <= rpcParams.weights.den

C5_Witness ==
  /\ Dispatched
  /\ SuppliedWeights = <<Num(255), NoNum, NoNum, NoNum>>
  /\ Sum4(rpcParams.weights.nums) = 1005
  /\ rpcParams.weights.den = One

\* C6: searchWeighted with all four weights explicitly 0, and query vectors
\* that pass validation, fails with the ValidationError on field 'weights'
\* and issues no rpc.
C6_VectorsValid ==
  /\ Present(call.options.queryEmbedding)
  /\ Len(call.options.queryEmbedding.elems) > 0
  /\ ~C3_DimensionFailure
C6_AllZeroWeightsRejected ==
  ( /\ pc = "done" /\ call.entry = "searchWeighted"
    /\ \A i \in 1..4 : SuppliedWeights[i] = Num(0)
    /\ C6_VectorsValid ) =>
    /\ outcome.kind = "throw"
    /\ outcome.error.cls = "ValidationError"
    /\ outcome.error.field = "weights"
    /\ rpcCalls = 0

C6_Witness ==
  /\ pc = "done" /\ call.entry = "searchWeighted"
  /\ \A i \in 1..4 : SuppliedWeights[i] = Num(0)
  /\ call.options.queryEmbedding = GoodVec
  /\ call.expectedDimensions = Num(Dim)
  /\ outcome.error.field = "weights"

\* C7: searchWeighted with raw weights main = 50 and section2 = 50, and
\* section1 and section3 unset or 0, dispatches the weights 0.5, 0, 0.5, 0.
C7_FiftyFifty ==
  ( /\ Dispatched
    /\ SuppliedWeights[1] = Num(50 * One) /\ SuppliedWeights[3] = Num(50 * One)
    /\ SuppliedWeights[2] \in {NoNum, Num(0)}
    /\ SuppliedWeights[4] \in {NoNum, Num(0)} ) =>
    /\ DispatchedIs(1, 1, 2) /\ DispatchedIs(2, 0, 1)
    /\ DispatchedIs(3, 1, 2) /\ DispatchedIs(4, 0, 1)

C9_DimensionMismatchSurfaces ==
  ( /\ pc = "done" /\ IsSearch
    /\ Present(call.options.queryEmbedding)
    /\ Len(call.options.queryEmbedding.elems) > 0
    /\ C3_DimensionFailure ) =>
    /\ outcome.kind = "throw"
    /\ outcome.error.cls = "EmbeddingError"
    /\ outcome.error.code = "DIMENSION_MISMATCH"

\* C10: every error search or searchWeighted raises to its caller is a
\* ValidationError or a SearchError.
C10_StableErrorSurface ==
  (IsSearch /\ outcome.kind = "throw") =>
    outcome.error.cls \in {"ValidationError", "SearchError"}

C10_Witness ==
  /\ pc = "done" /\ call.entry = "search"
  /\ rpcCalls = 4
  /\ lastReply.kind = "throw"
  /\ lastError.cls = "Error"
  /\ outcome.kind = "throw"
  /\ outcome.error.cls = "SearchError"
  /\ outcome.error.msg = <<"Unexpected error during search", "fetch failed">>

\* What the caller asked for, where the caller set it.
ThresholdAsAsked ==
  call.options.matchThreshold.some
    => rpcParams.match_threshold = call.options.matchThreshold.v
CountAsAsked ==
  call.options.matchCount.some
    => rpcParams.match_count = call.options.matchCount.v
FirstAttemptSucceeded == pc = "done" /\ opCalls = 1 /\ lastOp.ok

\* C11: a search whose backend call succeeds on the first attempt has issued
\* exactly one rpc, to match_documents, carrying the caller's query vector,
\* threshold and result cap unchanged and a null filter when no filter was
\* given, and returns the backend's rows unchanged (the empty list when the
\* backend sent no data).
C11_FirstAttemptSearch ==
  (call.entry = "search" /\ FirstAttemptSucceeded) =>
    /\ rpcCalls = 1
    /\ rpcParams.fn = "match_documents"
    /\ rpcParams.query_embedding = call.options.queryEmbedding
    /\ ThresholdAsAsked
    /\ CountAsAsked
    /\ rpcParams.filter_metadata = call.options.filterMetadata
    /\ outcome = Return(IF lastReply.rows.some THEN lastReply.rows.v ELSE <<>>)

\* C12: for search and searchWeighted the threshold and the result cap sent to
\* the backend are the caller's values whenever the caller set them (every
\* threshold in [0, 1], 0 included, and every positive cap); the defaults 0.5
\* and 10 are sent only for values the caller left unset.
C12_CallerValuesDispatched ==
  (IsSearch /\ rpcCalls >= 1) =>
    /\ ThresholdAsAsked
    /\ CountAsAsked
    /\ ~call.options.matchThreshold.some
         => rpcParams.match_threshold = DefaultThreshold
    /\ ~call.options.matchCount.some => rpcParams.match_count = DefaultCount

\* The row of documents the evaluated SELECT list belongs to.
HasProjected == projected # NoRow
ProjectedDocument == CHOOSE d \in documents : d.id = projected.id

\* Slot 0 is the main vector, slots 1..3 the sections.
QuerySlot(i) == IF i = 0 THEN dbParams.query_embedding ELSE dbParams.query_sections[i]
StoredSlot(d, i) == IF i = 0 THEN d.embedding ELSE d.sections[i]
ReportedSlot(row, i) ==
  IF i = 0 THEN row.similarity_main ELSE row.similarity_sections[i]
SlotContributes(d, i) == QuerySlot(i).some /\ StoredSlot(d, i).some
Contribution(d, i) ==
  IF SlotContributes(d, i)
    THEN StoredSlot(d, i).sim * dbParams.weights.nums[i + 1]
    ELSE 0

C14_FilteredRankedCapped ==
  dbpc = "done" =>
    LET rows == dbResult.rows
        den == dbParams.weights.den
        returned == { rows[i].id : i \in 1..Len(rows) }
    IN /\ dbResult.ok
       /\ \A i \in 1..Len(rows) :
            /\ rows[i].similarity.num >= dbParams.match_threshold * den
            /\ dbParams.filter_metadata.some
                 => dbParams.filter_metadata.v \in rows[i].metadata
       /\ \A i \in 1..Len(rows), j \in 1..Len(rows) :
            i < j => rows[i].similarity.num >= rows[j].similarity.num
       /\ Len(rows) <= dbParams.match_count
       /\ \A d \in documents :
            ( /\ d.id \notin returned
              /\ weightedSimilarity(d, dbParams) >= dbParams.match_threshold * den
              /\ dbParams.filter_metadata.some
                   => dbParams.filter_metadata.v \in d.metadata )
            => \A i \in 1..Len(rows) :
                 weightedSimilarity(d, dbParams) <= rows[i].similarity.num

\* Every stored embedding of the scored candidate has a similarity in [0, 1].
SimilaritiesInUnitInterval ==
  \A i \in 0..3 :
    StoredSlot(ProjectedDocument, i).some
      => StoredSlot(ProjectedDocument, i).sim \in 0..One

BatchN == Len(ib.documents)
ChunkCount == (BatchN + ib.batchSize - 1) \div ib.batchSize
ChunkStart(k) == (k - 1) * ib.batchSize
RowsOf(table) == { table[x] : x \in 1..Len(table) }
RequestedChunks(requests) == { requests[x] : x \in 1..Len(requests) }

\* The k-th onProgress call reports (min(k * b, n), n) and was made when chunk
\* k's rows were in the table and no request of chunk k + 1 had been issued.
ProgressCallInOrder(k) ==
  LET e == ib.progress[k] IN
    /\ e.completed = Min(k * ib.batchSize, BatchN)
    /\ e.total = BatchN
    /\ 1..e.completed \subseteq RowsOf(e.table)
    /\ ChunkStart(k) \in RequestedChunks(e.requests)
    /\ \A r \in RequestedChunks(e.requests) : r <= ChunkStart(k)

\* C16: insertBatch of n documents in chunks of b >= 1 calls onProgress once
\* per chunk, the k-th call with (min(k * b, n), n), after chunk k's insert
\* succeeded and before chunk k + 1's insert starts; the completed counts
\* strictly increase, and when every chunk has succeeded there were as many
\* calls as chunks, the last one, and only the last one, reporting n.
C16_ProgressPerChunk ==
  ib.onProgress =>
    /\ \A k \in 1..Len(ib.progress) : ProgressCallInOrder(k)
    /\ \A k \in 1..Len(ib.progress) - 1 :
         ib.progress[k].completed < ib.progress[k + 1].completed
    /\ (ib.pc = "done" /\ ib.outcome.kind = "return" /\ BatchN > 0) =>
         /\ Len(ib.progress) = ChunkCount
         /\ \A k \in 1..ChunkCount :
              (ib.progress[k].completed = BatchN) <=> (k = ChunkCount)

\* Four documents in chunks of three, the short last chunk inserted after a
\* retry, two progress calls.
C16_Witness ==
  /\ ib.pc = "done"
  /\ ib.outcome = Return(<<1, 2, 3, 4>>)
  /\ ib.onProgress
  /\ ib.batchSize = 3
  /\ ib.retries > 0
  /\ Len(ib.progress) = 2
  /\ ib.progress[2].completed = 4

BatchFailed == ib.pc = "done" /\ ib.outcome.kind = "throw"

\* C17: when a chunk's insert fails on all its attempts, no insert is issued
\* for a later chunk, the rows of the earlier chunks stay in the table,
\* onProgress is not called for the failed chunk or a later one, and the call
\* raises a SearchError instead of returning a partial list.
C17_FailedChunkStops ==
  BatchFailed =>
    /\ Len(SelectSeq(ib.requests, LAMBDA r : r = ib.i)) = BatchMaxRetries + 1
    /\ \A r \in RequestedChunks(ib.requests) : r <= ib.i
    /\ 1..ib.i \subseteq RowsOf(ib.table)
    /\ \A k \in 1..Len(ib.progress) : ib.progress[k].completed <= ib.i
    /\ ib.outcome.error.cls = "SearchError"
    /\ ib.outcome.value = <<>>
    /\ ib.onProgress => Len(ib.progress) * ib.batchSize = ib.i

\* The second chunk fails four times on a network error after the first
\* chunk was inserted and reported.
C17_Witness ==
  /\ BatchFailed
  /\ ib.i > 0
  /\ ib.lastError.cls = "Error"
  /\ ib.i < BatchN
  /\ Len(ib.progress) = 1
  /\ ib.results # <<>>

\* C18: within one withRetry call at most one invocation of the operation is
\* in flight, and invocation k + 1 has started only when k invocations have
\* failed and k backoff sleeps have elapsed.
C18_OneInvocationInFlight ==
  \A c \in Calls :
    /\ runs[c].inFlight <= 1
    /\ runs[c].started >= 1 =>
         /\ runs[c].started = runs[c].slept + 1
         /\ runs[c].failed >= runs[c].slept
         /\ runs[c].inFlight = 1 => runs[c].failed = runs[c].started - 1

\* A third invocation in flight after two failures and two sleeps.
C18_Witness ==
  \E c \in Calls :
    /\ runs[c].pc = "running"
    /\ runs[c].started = 3
    /\ runs[c].slept = 2
    /\ runs[c].inFlight = 1

\* Whatever call c could do next is enabled.
CanStep(c) ==
  /\ runs[c].pc = "idle" => ENABLED withRetryCall(c)
  /\ runs[c].pc = "running" => ENABLED OperationSettlesIn(c)
  /\ runs[c].pc = "sleeping" => ENABLED SleepElapsesIn(c)

\* The outcomes of call c's own operation so far determine its state: every
\* invocation but the latest failed, the call is done exactly when the latest
\* one succeeded or was number maxRetries + 1, and it returns that value or
\* throws that error.
OwnOutcomesDecide(c) ==
  LET run == runs[c]
      h == run.history
      n == Len(h)
  IN run.pc # "idle" =>
       /\ run.started = n + run.inFlight
       /\ n <= run.maxRetries + 1
       /\ \A k \in 1..(n - 1) : ~h[k].ok
       /\ (run.pc = "done") <=> (n >= 1 /\ (h[n].ok \/ n = run.maxRetries + 1))
       /\ run.pc = "done" =>
            run.outcome = IF h[n].ok THEN Return(h[n].value) ELSE Throw(h[n].error)

\* C19: of two interleaved withRetry calls, the backoff sleep of one never
\* keeps the other from taking its steps, and each call's number of attempts
\* and outcome depend only on the outcomes of its own operation.
C19_CallsIndependent ==
  /\ \A c \in Calls, d \in Calls :
       (c # d /\ runs[c].pc = "sleeping") => CanStep(d)
  /\ \A c \in Calls : OwnOutcomesDecide(c)

\* Call 1 returned on its third attempt; call 2, allowed one retry, slept once
\* and threw after its second failure.
C19_Witness ==
  /\ runs[1].pc = "done"
  /\ runs[1].outcome = Return(<<1, 3>>)
  /\ runs[2].pc = "done"
  /\ runs[2].outcome.kind = "throw"
  /\ runs[2].maxRetries = 1
  /\ runs[2].slept = 1

Validated == validation.pc = "done"
BadValue(e) == ~IsNumber(e) \/ IsNaN(e)
HasBadValue(embedding) ==
  \E i \in 1..Len(embedding.elems) : BadValue(embedding.elems[i])
Fails(code) ==
  validation.result.cls = "EmbeddingError" /\ validation.result.code = code

\* C20: validateEmbeddingDimensions fails with INVALID_EMBEDDING_TYPE for
\* every value that is not an array, with DIMENSION_MISMATCH for every array
\* of another length than expected, whatever its elements, with
\* INVALID_EMBEDDING_VALUES for every array of the expected length holding a
\* non-number or NaN, and returns normally otherwise.
C20_ChecksInOrder ==
  Validated =>
    LET e == validation.embedding
        d == validation.expectedDimensions
    IN /\ ~e.isArray => Fails("INVALID_EMBEDDING_TYPE")
       /\ (e.isArray /\ Len(e.elems) # d) => Fails("DIMENSION_MISMATCH")
       /\ (e.isArray /\ Len(e.elems) = d /\ HasBadValue(e))
            => Fails("INVALID_EMBEDDING_VALUES")
       /\ (e.isArray /\ Len(e.elems) = d /\ ~HasBadValue(e))
            => validation.result = NoError

\* An array one short of the expected length that holds NaN and a string is
\* rejected for its length.
C20_Witness ==
  /\ Validated
  /\ validation.embedding = Vec(<<NaNVal, StrVal>>)
  /\ validation.expectedDimensions = 3
  /\ Fails("DIMENSION_MISMATCH")

NonFinite(e) == e \in {NaNVal, InfVal, NegInfVal}
HasNonFinite(q) == q.isArray /\ \E i \in 1..Len(q.elems) : NonFinite(q.elems[i])

\* C21: the validator rejects every vector with a NaN, +Infinity or -Infinity
\* component, so a search given expectedDimensions and a query vector with
\* such a component fails without an rpc.
C21_NonFiniteRejected ==
  ( /\ IsSearch
    /\ Truthy(call.expectedDimensions)
    /\ HasNonFinite(call.options.queryEmbedding) )
  => /\ rpcCalls = 0
     /\ pc = "done"
     /\ outcome.kind = "throw"

\* Content that is missing, empty, or made of spaces only.
EmptyOrWhitespace(content) ==
  ~content.some \/ \A x \in 1..Len(content.chars) : content.chars[x] = " "

\* C22: insert called with empty or whitespace-only content fails with
\* ValidationError, makes no backend call and performs no retry.
C22_BlankContentRejected ==
  (dm.op = "insert" /\ EmptyOrWhitespace(dm.content)) =>
    /\ dm.pc = "done"
    /\ dm.outcome.kind = "throw"
    /\ dm.outcome.error.cls = "ValidationError"
    /\ dm.calls = 0
    /\ dm.retries = 0

\* insert of a document whose content is two spaces.
C22_Witness ==
  /\ dm.op = "insert"
  /\ dm.content = Content(<<" ", " ">>)
  /\ dm.outcome.error.field = "content"
  /\ dm.calls = 0

\* How often insertBatch requested the chunk that starts at i.
RequestsOfChunk(i) == Len(SelectSeq(ib.requests, LAMBDA r : r = i))

\* insertBatch: at most four requests per chunk, a SearchError after the
\* fourth failure, and on success the rows of every chunk.
BatchRetriesEachChunk ==
  /\ \A i \in RequestedChunks(ib.requests) :
       RequestsOfChunk(i) <= BatchMaxRetries + 1
  /\ BatchFailed =>
       /\ RequestsOfChunk(ib.i) = BatchMaxRetries + 1
       /\ ib.outcome.error.cls = "SearchError"
  /\ (ib.pc = "done" /\ ib.outcome.kind = "return")
       => ib.outcome.value = ib.documents

\* A reply that carries an error object or never arrived.
IsErrorReply(op, reply) == reply.kind \in {"error", "throw"}

\* The same, except get's "no row found".
IsFailure(op, reply) ==
  IsErrorReply(op, reply) /\ ~(op = "get" /\ reply.code = "PGRST116")

\* The single operation in progress called the backend again after every
\* failing reply, at most DocumentMaxRetries + 1 times, raised a SearchError
\* after the last failure, and returned the value of the first reply that
\* did not fail.
RetriesUntilSuccess(Failing(_, _)) ==
  LET n == Len(dm.replies) IN
    dm.calls >= 1 =>
      /\ dm.calls <= DocumentMaxRetries + 1
      /\ \A k \in 1..(n - 1) : Failing(dm.op, dm.replies[k])
      /\ dm.pc = "done" =>
           IF Failing(dm.op, dm.replies[n])
             THEN /\ n = DocumentMaxRetries + 1
                  /\ dm.outcome.kind = "throw"
                  /\ dm.outcome.error.cls = "SearchError"
             ELSE dm.outcome = Return(DocumentValue(dm.op, dm.replies[n]))
      /\ dm.pc # "done" => (n = dm.calls - 1 \/ Failing(dm.op, dm.replies[n]))

BlankDocuments ==
  { d \in 1..Len(ib.contents) : \A x \in 1..Len(ib.contents[d]) : ib.contents[d][x] = " " }

\* C23: insertBatch given a document with empty or whitespace-only content
\* sends no such document to the backend and fails with ValidationError.
C23_BatchContentValidated ==
  (ib.pc # "idle" /\ BlankDocuments # {}) =>
    /\ \A r \in RequestedChunks(ib.requests) :
         \A d \in BlankDocuments : ~(r < d /\ d <= r + ib.batchSize)
    /\ BlankDocuments \cap RowsOf(ib.table) = {}
    /\ ib.pc = "done"
    /\ ib.outcome.kind = "throw"
    /\ ib.outcome.error.cls = "ValidationError"

\* C25: generateEmbeddingsBatch returns exactly one embedding per input text,
\* in input order: result[i] is the embedding of texts[i].
C25_OneEmbeddingPerText ==
  (emb.pc = "done" /\ emb.outcome.kind = "return") =>
    /\ Len(emb.outcome.value) = Len(emb.texts)
    /\ \A x \in 1..Len(emb.texts) : emb.outcome.value[x] = EmbeddingOf(emb.texts[x])

\* C26: in a withRetry call the k-th sleep, the one after the failed attempt
\* with 0-based index k - 1, lasts min(initialDelay * 2^(k-1), maxDelay) with
\* exponential backoff and initialDelay without it; with the default delays
\* the first three sleeps last 1000, 2000 and 4000 ms; the sleeps never
\* decrease; and with backoff no sleep exceeds maxDelay.
DefaultDelays == <<1000, 2000, 4000>>

C26_BackoffDelays ==
  (call.entry = "withRetry") =>
    /\ \A k \in 1..Len(sleeps) :
         /\ k - 1 < call.maxRetries
         /\ call.exponentialBackoff =>
              /\ sleeps[k] = Min(call.initialDelayMs * (2 ^ (k - 1)), call.maxDelayMs)
              /\ sleeps[k] <= call.maxDelayMs
         /\ ~call.exponentialBackoff => sleeps[k] = call.initialDelayMs
         /\ k > 1 => sleeps[k - 1] <= sleeps[k]
    /\ ( /\ call.exponentialBackoff
         /\ call.initialDelayMs = DefaultInitialDelayMs
         /\ call.maxDelayMs = DefaultMaxDelayMs ) =>
         \A k \in 1..Min(Len(sleeps), Len(DefaultDelays)) : sleeps[k] = DefaultDelays[k]

\* A finished call with backoff whose third sleep was capped at maxDelay.
C26_Witness ==
  /\ call.entry = "withRetry" /\ call.exponentialBackoff /\ pc = "done"
  /\ Len(sleeps) >= 3
  /\ call.initialDelayMs * 4 > call.maxDelayMs
  /\ sleeps[3] = call.maxDelayMs

\* C27: after each failed attempt of withRetry that is not the last, onRetry
\* has been called exactly once, with the 1-based number of that attempt and
\* the error it threw, and exactly one sleep follows before the next attempt
\* starts; after the final failed attempt, number maxRetries + 1, there is
\* neither an onRetry call nor a sleep before the error is raised.
C27_CallbackThenSleepThenRetry ==
  (call.entry = "withRetry" /\ pc # "idle") =>
    /\ Len(onRetryLog) = Min(opFails, call.maxRetries)
    /\ Len(sleeps) = Len(onRetryLog)
    /\ \A k \in 1..Len(onRetryLog) : onRetryLog[k] = <<k, k>>
    /\ pc = "sleeping" => (opCalls = Len(sleeps) /\ opFails = opCalls)
    /\ pc = "running" => (opCalls = Len(sleeps) + 1 /\ opFails = opCalls - 1)
    /\ (pc = "done" /\ outcome.kind = "throw" /\ opCalls > 0) =>
         /\ opFails = call.maxRetries + 1
         /\ outcome.error.id = opFails
         /\ Len(onRetryLog) = opFails - 1
         /\ Len(sleeps) = opFails - 1

\* A call that failed at every attempt: onRetry and a sleep after each one
\* but the last.
C27_Witness ==
  /\ call.entry = "withRetry" /\ pc = "done" /\ outcome.kind = "throw"
  /\ call.maxRetries >= 2
  /\ opFails = call.maxRetries + 1
  /\ Len(onRetryLog) = call.maxRetries
  /\ onRetryLog[call.maxRetries] = <<call.maxRetries, call.maxRetries>>
  /\ Len(sleeps) = call.maxRetries

\* C28: a withConditionalRetry call makes no further attempt once an attempt
\* failed with an error isRetryableError calls non-retryable: it raises that
\* same error at once, with no sleep and no call of the user's onRetry for
\* it; while every failure is retryable it has made the attempts, callbacks
\* and sleeps of withRetry with the same options.
IsConditional == call.entry = "withConditionalRetry" /\ pc # "idle"

C28_StopsAtNonRetryable ==
  IsConditional =>
    /\ (~lastOp.ok /\ ~isRetryableError(lastOp.error)) =>
         /\ pc = "done"
         /\ outcome = Throw(lastOp.error)
         /\ outcome.error.id = opCalls
         /\ Len(onRetryLog) = opFails - 1
         /\ Len(sleeps) = opFails - 1
    /\ (lastOp.ok \/ isRetryableError(lastOp.error)) =>
         /\ Len(onRetryLog) = Min(opFails, call.maxRetries)
         /\ Len(sleeps) = Len(onRetryLog)
         /\ pc = "sleeping" => (opCalls = Len(sleeps) /\ opFails = opCalls)
         /\ pc = "running" => (opCalls = Len(sleeps) + 1 /\ opFails = opCalls - 1)
         /\ (pc = "done" /\ lastOp.ok) => outcome = Return(lastOp.value)
         /\ (pc = "done" /\ ~lastOp.ok /\ opCalls > 0) =>
              /\ opFails = call.maxRetries + 1
              /\ outcome = Throw(lastOp.error)
    /\ \A k \in 1..Len(onRetryLog) : onRetryLog[k] = <<k, k>>
    /\ \A k \in 1..Len(sleeps) :
         sleeps[k] = IF call.exponentialBackoff
                       THEN Min(call.initialDelayMs * (2 ^ (k - 1)), call.maxDelayMs)
                       ELSE call.initialDelayMs

\* A call that stopped at a non-retryable error of its second attempt, with
\* retries left, after one retryable failure.
C28_Witness ==
  /\ IsConditional /\ pc = "done" /\ outcome.kind = "throw"
  /\ outcome.error.msg = <<"boom">>
  /\ opCalls = 2 /\ call.maxRetries >= 2
  /\ Len(onRetryLog) = 1 /\ Len(sleeps) = 1

\* What searchWeighted dispatches when the caller gives the main query vector
\* alone and leaves the four weights and the threshold unset.
MainOnlyParams ==
  { searchWeightedParams([NoOptions EXCEPT !.queryEmbedding = GoodVec,
                            !.matchCount = tc[2], !.filterMetadata = f]) :
      tc \in { t \in ThresholdCountInputs : ~t[1].some }, f \in FilterInputs }
IsMainOnlyCall == dbpc # "idle" /\ dbParams \in MainOnlyParams

\* C29: a searchWeighted call with the main query vector alone and the four
\* weights and the threshold unset never returns a row: the backend receives
\* weight_main = 0.25 and match_threshold = 0.5, every candidate's aggregate
\* is at most 0.25 and so below the threshold, and the rows returned are none.
C29_MainOnlyDefaultsReturnNothing ==
  IsMainOnlyCall =>
    /\ dbParams.weights.nums[1] * 4 = dbParams.weights.den
    /\ dbParams.match_threshold * 2 = One
    /\ \A d \in documents :
         /\ weightedSimilarity(d, dbParams) * 4 <= One * dbParams.weights.den
         /\ weightedSimilarity(d, dbParams)
              < dbParams.match_threshold * dbParams.weights.den
         /\ ~HavingClause(d, dbParams)
    /\ HasProjected =>
         projected.similarity.num * 4 <= One * projected.similarity.den
    /\ dbResult.rows = <<>>

\* Such a call completed over a table holding the candidate whose main
\* embedding equals the query vector: its aggregate is exactly 0.25.
C29_Witness ==
  /\ IsMainOnlyCall /\ dbpc = "done"
  /\ \E d \in documents : d.embedding = StoredEmbedding(One)
  /\ HasProjected /\ projected.id = 1
  /\ projected.similarity.num * 4 = One * projected.similarity.den
  /\ dbResult.rows = <<>>

\* ceil(n / b)
Ceil(n, b) == (n + b - 1) \div b

\* An insertBatch call that returned with every chunk inserted at its first
\* attempt.
AllChunksFirstAttempt ==
  /\ ib.pc = "done" /\ ib.outcome.kind = "return"
  /\ Len(ib.documents) >= 1
  /\ ib.retries = 0

ChunksCoverOnce ==
  AllChunksFirstAttempt =>
    /\ Len(ib.requests) = Ceil(Len(ib.documents), ib.batchSize)
    /\ \A k \in 1..Len(ib.requests) : ib.requests[k] = (k - 1) * ib.batchSize
    /\ ib.table = ib.documents
    /\ ib.outcome.value = ib.documents

\* C30: when every insert request is answered, an insertBatch call of n >= 1
\* documents with batch size b >= 1 terminates; and when every chunk succeeded
\* at its first attempt it has issued exactly ceil(n / b) inserts, over
\* consecutive disjoint chunks that cover each document exactly once, and
\* returns the inserted rows concatenated in chunk order.
C30_TerminatesAndCoversOnce ==
  /\ [](ChunksCoverOnce)
  /\ (ib.pc \in {"inserting", "sleeping"}) ~> (ib.pc = "done")

\* Three documents inserted in chunks of two: two inserts, of two documents
\* and of one.
C30_Witness ==
  /\ AllChunksFirstAttempt
  /\ Len(ib.documents) = 3
  /\ ib.batchSize = 2
  /\ ib.requests = <<0, 2>>
  /\ ib.table = <<1, 2, 3>>
  /\ ib.outcome.value = ib.documents
====
